---------------------------- MODULE Spec2Model ----------------------------
(***************************************************************************)
(* Rubbish-bin filling simulation (simulated_city/rubbish_sim.py).         *)
(*                                                                         *)
(* Probabilities and random draws are written in hundredths: the float r   *)
(* in [0,1) returned by rng.random() is the integer 100*r in 0..99, and    *)
(* arrival_prob = 1.0 is 100.  A random source is the sequence of draws it *)
(* is going to hand out; taking a draw removes the head of the sequence.   *)
(* Timestamps are minutes.                                                 *)
(***************************************************************************)
EXTENDS Integers, Sequences, FiniteSets, TLC

VARIABLES
    pc,             \* position of run_simulation / of the called function
    cfg,            \* AppConfig + the arguments of run_simulation
    locations,      \* run_simulation: list of LocationState
    timestep_index, \* run_simulation: outer loop variable
    loc_index,      \* run_simulation: inner loop variable i (1-based)
    published,      \* every publish_status call received by the publisher
    start_ts,       \* run_simulation: timestamp of the start of the run
    deposit,        \* run_simulation: DepositResult of the last step_location
    error,          \* exception raised out of run_simulation, or None
    sinks,          \* run_simulation: log_fp, client and what was done to them
    faults,         \* the sink operations that raise when they are called
    jsonl,          \* the log file: its content and the payloads logged
    session,        \* the dashboard's session state: log_offset, payloads
    args,           \* arguments of a direct call of one function
    ret             \* what that call returned or raised

log_vars == <<jsonl, session>>

vars == <<pc, cfg, locations, timestep_index, loc_index, published, start_ts,
          deposit, error, sinks, faults, jsonl, session, args, ret>>

None == "None"

(***************************************************************************)
(* Bounds of the model.                                                    *)
(***************************************************************************)
MaxSteps == 2
MaxLocations == 1

\* Values of rng.random(), in hundredths, on both sides of every threshold.
RollValues == {0, 24, 25, 49, 50, 74, 75, 99}
\* A random source good for the three draws one step_location can take.
RngTapes == [1..3 -> RollValues]
\* The draws of a whole run: one value for each outcome of every draw
\* (arrival or not, each preferred container, each fallback choice).
RunRollValues == {0, 50, 99}
RunRngTapes == [1..3 -> RunRollValues]
\* Fill levels handed to the functions when they are called directly.
FillSamples == {0, 40, 99, 100}
FillInputs == 0..100
ArrivalProbValues == {0, 50, 100}
DeltaValues == {2, 60, 150}
BoundaryValues == {0, 10, 25}
BoundaryInputs == {-5, 0, 1, 3, 10, 25, 100, 101}
\* simulation.start_time when configured, and the wall clock when it is not.
StartTimes == {600}
NowValues == {1000}
TimestepMinutesValues == {15}

ContainerNames == <<"left", "center", "right">>

(***************************************************************************)
(* Value types.                                                            *)
(***************************************************************************)
ContainerState(fill) == [fill_pct |-> fill]

is_full(container) == container.fill_pct >= 100

LocationState(id, lat, lon, left, center, right) ==
    [location_id |-> id, lat |-> lat, lon |-> lon,
     left |-> left, center |-> center, right |-> right]

DepositResult(deposited, container, old_fill, new_fill) ==
    [deposited |-> deposited, container |-> container,
     old_fill_pct |-> old_fill, new_fill_pct |-> new_fill]

\* The i-th entry of simulation.locations in config.yaml.
SimulationLocationConfig(i) == [location_id |-> i, lat |-> 55 + i, lon |-> 12 + i]

Min(a, b) == IF a <= b THEN a ELSE b

(***************************************************************************)
(* random.Random: random() and choice().                                   *)
(***************************************************************************)
rng_random(rng) == [value |-> Head(rng), rng |-> Tail(rng)]

rng_choice(rng, seq) ==
    [value |-> seq[((Head(rng) * Len(seq)) \div 100) + 1], rng |-> Tail(rng)]

(***************************************************************************)
(* boundaries_crossed                                                      *)
(***************************************************************************)
Returned(v) == [raised |-> None, value |-> v]
Raised(e) == [raised |-> e, value |-> None]

boundaries_crossed_roundup(old_fill_pct, new_fill_pct, boundary_pct) ==
    IF boundary_pct <= 0 THEN Raised("ValueError")
    ELSE LET old_bucket == (old_fill_pct + boundary_pct - 1) \div boundary_pct
             new_bucket == (new_fill_pct + boundary_pct - 1) \div boundary_pct
         IN  IF new_bucket <= old_bucket THEN Returned(<<>>)
             ELSE Returned([k \in 1..(new_bucket - old_bucket) |->
                               (old_bucket + k) * boundary_pct])

boundaries_crossed_offbyone(old_fill_pct, new_fill_pct, boundary_pct) ==
    IF boundary_pct <= 0 THEN Raised("ValueError")
    ELSE LET old_bucket == old_fill_pct \div boundary_pct
             new_bucket == new_fill_pct \div boundary_pct
         IN  IF new_bucket <= old_bucket THEN Returned(<<>>)
             ELSE Returned([k \in 1..(new_bucket - old_bucket) |->
                               (old_bucket + k - 1) * boundary_pct])

boundaries_crossed_noguard(old_fill_pct, new_fill_pct, boundary_pct) ==
    IF boundary_pct < 0 THEN Raised("ValueError")
    ELSE IF boundary_pct = 0 THEN Raised("ZeroDivisionError")
    ELSE LET old_bucket == old_fill_pct \div boundary_pct
             new_bucket == new_fill_pct \div boundary_pct
         IN  IF new_bucket <= old_bucket THEN Returned(<<>>)
             ELSE Returned([k \in 1..(new_bucket - old_bucket) |->
                               (old_bucket + k) * boundary_pct])

boundaries_crossed(old_fill_pct, new_fill_pct, boundary_pct) ==
    IF boundary_pct <= 0 THEN Raised("ValueError")
    ELSE LET old_bucket == old_fill_pct \div boundary_pct
             new_bucket == new_fill_pct \div boundary_pct
         IN  IF new_bucket <= old_bucket THEN Returned(<<>>)
             ELSE \* [i * boundary_pct for i in range(old_bucket+1, new_bucket+1)]
                  Returned([k \in 1..(new_bucket - old_bucket) |->
                               (old_bucket + k) * boundary_pct])

(***************************************************************************)
(* choose_container                                                        *)
(***************************************************************************)
_pick_preferred_container_inclusive(rng) ==
    LET roll == rng_random(rng)
    IN  [value |-> IF roll.value <= 25 THEN "left"
                   ELSE IF roll.value <= 75 THEN "center"
                   ELSE "right",
         rng |-> roll.rng]

_pick_preferred_container(rng) ==
    LET roll == rng_random(rng)
    IN  [value |-> IF roll.value < 25 THEN "left"
                   ELSE IF roll.value < 75 THEN "center"
                   ELSE "right",
         rng |-> roll.rng]

choose_container_nofallback(rng, left, center, right) ==
    LET preferred == _pick_preferred_container(rng)
    IN  preferred

choose_container_giveup(rng, left, center, right) ==
    LET preferred == _pick_preferred_container(rng)
        containers == [left |-> left, center |-> center, right |-> right]
    IN  IF ~is_full(containers[preferred.value]) THEN preferred
        ELSE [value |-> None, rng |-> preferred.rng]

choose_container(rng, left, center, right) ==
    LET preferred == _pick_preferred_container(rng)
        containers == [left |-> left, center |-> center, right |-> right]
        available == SelectSeq(ContainerNames,
                               LAMBDA name : ~is_full(containers[name]))
    IN  IF ~is_full(containers[preferred.value]) THEN preferred
        ELSE IF available = <<>> THEN [value |-> None, rng |-> preferred.rng]
        ELSE rng_choice(preferred.rng, available)

(***************************************************************************)
(* _apply_deposit                                                          *)
(***************************************************************************)
_apply_deposit_noclamp(container, delta_pct) ==
    LET old_fill == container.fill_pct
        new_fill == old_fill + delta_pct
    IN  [state |-> ContainerState(new_fill), old_fill |-> old_fill,
         new_fill |-> new_fill]

_apply_deposit_wrap(container, delta_pct) ==
    LET old_fill == container.fill_pct
        new_fill == (old_fill + delta_pct) % 100
    IN  [state |-> ContainerState(new_fill), old_fill |-> old_fill,
         new_fill |-> new_fill]

_apply_deposit_clampdelta(container, delta_pct) ==
    LET old_fill == container.fill_pct
        new_fill == old_fill + Min(100, delta_pct)
    IN  [state |-> ContainerState(Min(100, new_fill)), old_fill |-> old_fill,
         new_fill |-> new_fill]

_apply_deposit(container, delta_pct) ==
    LET old_fill == container.fill_pct
        new_fill == Min(100, old_fill + delta_pct)
    IN  [state |-> ContainerState(new_fill), old_fill |-> old_fill,
         new_fill |-> new_fill]

(***************************************************************************)
(* step_location                                                           *)
(***************************************************************************)
NoDeposit == DepositResult(FALSE, None, None, None)

arrived_inverted(roll, sim_cfg) == roll >= sim_cfg.arrival_prob

\* arrived = rng.random() < sim_cfg.arrival_prob
arrived(roll, sim_cfg) == roll < sim_cfg.arrival_prob

step_location_slip(rng, sim_cfg, location) ==
    LET roll == rng_random(rng)
        chosen == choose_container(roll.rng, location.left, location.center,
                                   location.right)
    IN  IF ~arrived(roll.value, sim_cfg)
        THEN [location |-> location, deposit |-> NoDeposit, rng |-> roll.rng]
        ELSE IF chosen.value = None
        THEN [location |-> location, deposit |-> NoDeposit, rng |-> chosen.rng]
        ELSE IF chosen.value = "left"
        THEN LET d == _apply_deposit(location.left, sim_cfg.bag_fill_delta_pct)
             IN  [location |-> LocationState(location.location_id, location.lat,
                                   location.lon, d.state, location.center,
                                   location.right),
                  deposit |-> DepositResult(TRUE, "left", d.old_fill, d.new_fill),
                  rng |-> chosen.rng]
        ELSE IF chosen.value = "center"
        THEN LET d == _apply_deposit(location.center, sim_cfg.bag_fill_delta_pct)
             IN  [location |-> LocationState(location.location_id, location.lat,
                                   location.lon, d.state, d.state,
                                   location.right),
                  deposit |-> DepositResult(TRUE, "center", d.old_fill, d.new_fill),
                  rng |-> chosen.rng]
        ELSE LET d == _apply_deposit(location.right, sim_cfg.bag_fill_delta_pct)
             IN  [location |-> LocationState(location.location_id, location.lat,
                                   location.lon, location.left, location.center,
                                   d.state),
                  deposit |-> DepositResult(TRUE, "right", d.old_fill, d.new_fill),
                  rng |-> chosen.rng]

step_location(rng, sim_cfg, location) ==
    LET roll == rng_random(rng)
        chosen == choose_container(roll.rng, location.left, location.center,
                                   location.right)
    IN  IF ~arrived(roll.value, sim_cfg)
        THEN [location |-> location, deposit |-> NoDeposit, rng |-> roll.rng]
        ELSE IF chosen.value = None
        THEN [location |-> location, deposit |-> NoDeposit, rng |-> chosen.rng]
        ELSE IF chosen.value = "left"
        THEN LET d == _apply_deposit(location.left, sim_cfg.bag_fill_delta_pct)
             IN  [location |-> LocationState(location.location_id, location.lat,
                                   location.lon, d.state, location.center,
                                   location.right),
                  deposit |-> DepositResult(TRUE, "left", d.old_fill, d.new_fill),
                  rng |-> chosen.rng]
        ELSE IF chosen.value = "center"
        THEN LET d == _apply_deposit(location.center, sim_cfg.bag_fill_delta_pct)
             IN  [location |-> LocationState(location.location_id, location.lat,
                                   location.lon, location.left, d.state,
                                   location.right),
                  deposit |-> DepositResult(TRUE, "center", d.old_fill, d.new_fill),
                  rng |-> chosen.rng]
        ELSE LET d == _apply_deposit(location.right, sim_cfg.bag_fill_delta_pct)
             IN  [location |-> LocationState(location.location_id, location.lat,
                                   location.lon, location.left, location.center,
                                   d.state),
                  deposit |-> DepositResult(TRUE, "right", d.old_fill, d.new_fill),
                  rng |-> chosen.rng]

_initial_location_state(loc) ==
    LocationState(loc.location_id, loc.lat, loc.lon,
                  ContainerState(0), ContainerState(0), ContainerState(0))

(***************************************************************************)
(* run_simulation                                                          *)
(***************************************************************************)
NoSimulation == [is_none |-> TRUE]

\* start_time is optional: << >> when absent, <<t>> when configured.

SimulationConfig(minutes, prob, delta, boundary, every, start, locs) ==
    [is_none |-> FALSE,
     timestep_minutes |-> minutes,
     arrival_prob |-> prob,
     bag_fill_delta_pct |-> delta,
     status_boundary_pct |-> boundary,
     publish_every_deposit |-> every,
     start_time |-> start,
     locations |-> locs]

SimulationConfigs ==
    { SimulationConfig(tm, ap, d, b, ped, st,
                       [i \in 1..n |-> SimulationLocationConfig(i)]) :
        tm \in TimestepMinutesValues, ap \in ArrivalProbValues,
        d \in DeltaValues, b \in BoundaryValues, ped \in BOOLEAN,
        st \in {<< >>} \cup {<<t>> : t \in StartTimes}, n \in 0..MaxLocations }

\* One call of publisher.publish_status.
publish_status(ts, location, container, fill_pct, index, event) ==
    [ts |-> ts, location |-> location, container |-> container,
     fill_pct |-> fill_pct, timestep_index |-> index, event |-> event]

init_events_index_zero(locs, ts) ==
    [k \in 1..(3 * Len(locs)) |->
        LET loc_state == locs[((k - 1) \div 3) + 1]
            container_name == ContainerNames[((k - 1) % 3) + 1]
        IN  publish_status(ts, loc_state, container_name,
                           loc_state[container_name].fill_pct, 0, "init")]

\* The init events: one per container of every location, in order.
init_events(locs, ts) ==
    [k \in 1..(3 * Len(locs)) |->
        LET loc_state == locs[((k - 1) \div 3) + 1]
            container_name == ContainerNames[((k - 1) % 3) + 1]
        IN  publish_status(ts, loc_state, container_name,
                           loc_state[container_name].fill_pct, -1, "init")]

status_events_boundary_value(sim_cfg, ts, updated, dep, index) ==
    IF sim_cfg.publish_every_deposit
    THEN Returned(<< publish_status(ts, updated, dep.container,
                                    dep.new_fill_pct, index, "status") >>)
    ELSE LET crossed == boundaries_crossed(dep.old_fill_pct, dep.new_fill_pct,
                                           sim_cfg.status_boundary_pct)
         IN  IF crossed.raised # None THEN Raised(crossed.raised)
             ELSE Returned([k \in 1..Len(crossed.value) |->
                      publish_status(ts, updated, dep.container,
                                     crossed.value[k], index, "status")])

status_events_flag_ignored(sim_cfg, ts, updated, dep, index) ==
    LET crossed == boundaries_crossed(dep.old_fill_pct, dep.new_fill_pct,
                                      sim_cfg.status_boundary_pct)
    IN  IF crossed.raised # None THEN Raised(crossed.raised)
        ELSE Returned([k \in 1..Len(crossed.value) |->
                 publish_status(ts, updated, dep.container,
                                dep.new_fill_pct, index, "status")])

status_events_once(sim_cfg, ts, updated, dep, index) ==
    IF sim_cfg.publish_every_deposit
    THEN Returned(<< publish_status(ts, updated, dep.container,
                                    dep.new_fill_pct, index, "status") >>)
    ELSE LET crossed == boundaries_crossed(dep.old_fill_pct, dep.new_fill_pct,
                                           sim_cfg.status_boundary_pct)
         IN  IF crossed.raised # None THEN Raised(crossed.raised)
             ELSE IF crossed.value = << >> THEN Returned(<< >>)
             ELSE Returned(<< publish_status(ts, updated, dep.container,
                                             dep.new_fill_pct, index, "status") >>)

status_events_next_index(sim_cfg, ts, updated, dep, index) ==
    IF sim_cfg.publish_every_deposit
    THEN Returned(<< publish_status(ts, updated, dep.container,
                                    dep.new_fill_pct, index + 1, "status") >>)
    ELSE LET crossed == boundaries_crossed(dep.old_fill_pct, dep.new_fill_pct,
                                           sim_cfg.status_boundary_pct)
         IN  IF crossed.raised # None THEN Raised(crossed.raised)
             ELSE Returned([k \in 1..Len(crossed.value) |->
                      publish_status(ts, updated, dep.container,
                                     dep.new_fill_pct, index + 1, "status")])

\* What one deposit makes the loop body publish, or the exception it raises.
status_events(sim_cfg, ts, updated, dep, index) ==
    IF sim_cfg.publish_every_deposit
    THEN Returned(<< publish_status(ts, updated, dep.container,
                                    dep.new_fill_pct, index, "status") >>)
    ELSE LET crossed == boundaries_crossed(dep.old_fill_pct, dep.new_fill_pct,
                                           sim_cfg.status_boundary_pct)
         IN  IF crossed.raised # None THEN Raised(crossed.raised)
             ELSE Returned([k \in 1..Len(crossed.value) |->
                      publish_status(ts, updated, dep.container,
                                     dep.new_fill_pct, index, "status")])

NoCall == [fn |-> None]

\* start_ts before it is assigned; timestamps are minutes and never negative.
NoTimestamp == -1

\* A log file just opened with mode "w" (empty, nothing logged) and a
\* dashboard session that has not polled yet.
NoLog == [content |-> << >>, logged |-> << >>]

NoSession == [log_offset |-> 0, payloads |-> << >>]

\* The operations on the log file and on the broker client that can raise.
SinkOperations == {"open", "connect_mqtt", "loop_start", "publish_status",
                   "close", "loop_stop", "disconnect"}

\* log_fp and client are the two locals of run_simulation (None until
\* acquired); the counters are the calls made on them, raising or not.
NoSinks == [log_fp |-> None, client |-> None, loop_start |-> 0,
            close |-> 0, loop_stop |-> 0, disconnect |-> 0]

\* `if log_file:` is false for None and for the empty string.
LogFiles == {None, "", "run.jsonl"}

\* The state on entry of run_simulation: nothing is built, no loop variable
\* is bound (timestep_index -1, loc_index 0, no deposit), no sink is
\* acquired and nothing is published.
Entered ==
    /\ pc = "start"
    /\ locations = << >>
    /\ timestep_index = -1
    /\ loc_index = 0
    /\ published = << >>
    /\ start_ts = NoTimestamp
    /\ deposit = NoDeposit
    /\ error = None
    /\ sinks = NoSinks
    /\ jsonl = NoLog
    /\ session = NoSession
    /\ args = NoCall
    /\ ret = None

\* A dry run without log file: the only sink is the stdout publisher.
RunInit ==
    /\ Entered
    /\ cfg \in [steps : 0..MaxSteps,
                simulation : SimulationConfigs \cup {NoSimulation},
                dry_run : {TRUE}, log_file : {None}]
    /\ faults = {}

Validate_steps_negative ==
    /\ pc = "start"
    /\ IF cfg.steps < 0
       THEN /\ error' = "ValueError"
            /\ pc' = "stopped"
            /\ UNCHANGED locations
       ELSE IF cfg.simulation = NoSimulation \/ cfg.simulation.locations = << >>
       THEN /\ error' = "ValueError"
            /\ pc' = "stopped"
            /\ UNCHANGED locations
       ELSE /\ locations' = [i \in 1..Len(cfg.simulation.locations) |->
                               _initial_location_state(cfg.simulation.locations[i])]
            /\ pc' = "opening"
            /\ UNCHANGED error
    /\ UNCHANGED <<cfg, timestep_index, loc_index, published, start_ts,
                   deposit, sinks, faults, args, ret, log_vars>>

\* steps and configuration checks, then the initial location states.
Validate ==
    /\ pc = "start"
    /\ IF cfg.steps <= 0
       THEN /\ error' = "ValueError"
            /\ pc' = "stopped"
            /\ UNCHANGED locations
       ELSE IF cfg.simulation = NoSimulation \/ cfg.simulation.locations = << >>
       THEN /\ error' = "ValueError"
            /\ pc' = "stopped"
            /\ UNCHANGED locations
       ELSE /\ locations' = [i \in 1..Len(cfg.simulation.locations) |->
                               _initial_location_state(cfg.simulation.locations[i])]
            /\ pc' = "opening"
            /\ UNCHANGED error
    /\ UNCHANGED <<cfg, timestep_index, loc_index, published, start_ts,
                   deposit, sinks, faults, args, ret, log_vars>>

\* The log file is opened, then (unless dry_run) the broker is connected
\* and its network loop started; all of it before the try block, so an
\* exception here leaves run_simulation without passing the finally block.
OpenSinks ==
    /\ pc = "opening"
    /\ LET wants_log == cfg.log_file \notin {None, ""}
           log_fp == IF wants_log THEN "fp" ELSE None
       IN  IF wants_log /\ "open" \in faults
           THEN /\ error' = "OSError"
                /\ pc' = "stopped"
                /\ UNCHANGED sinks
           ELSE IF ~cfg.dry_run /\ "connect_mqtt" \in faults
           THEN /\ sinks' = [sinks EXCEPT !.log_fp = log_fp]
                /\ error' = "OSError"
                /\ pc' = "stopped"
           ELSE IF ~cfg.dry_run /\ "loop_start" \in faults
           THEN /\ sinks' = [sinks EXCEPT !.log_fp = log_fp,
                                          !.client = "client",
                                          !.loop_start = 1]
                /\ error' = "OSError"
                /\ pc' = "stopped"
           ELSE /\ sinks' = [sinks EXCEPT
                               !.log_fp = log_fp,
                               !.client = IF cfg.dry_run THEN None ELSE "client",
                               !.loop_start = IF cfg.dry_run THEN 0 ELSE 1]
                /\ pc' = "initializing"
                /\ UNCHANGED error
    /\ UNCHANGED <<cfg, locations, timestep_index, loc_index, published,
                   start_ts, deposit, faults, args, ret, log_vars>>

\* The publisher is handed a sequence of events: it takes them all, or its
\* first publish_status raises.
publish_all(events) ==
    IF events # << >> /\ "publish_status" \in faults
    THEN Raised("OSError")
    ELSE Returned(events)

\* start_ts and the init publishes; then the first iteration is entered.
PublishInit ==
    /\ pc = "initializing"
    /\ \E now \in NowValues :
         start_ts' = IF cfg.simulation.start_time # << >>
                     THEN cfg.simulation.start_time[1] ELSE now
    /\ LET sent == publish_all(init_events(locations, start_ts'))
       IN  IF sent.raised # None
           THEN /\ error' = sent.raised
                /\ pc' = "draining"
                /\ UNCHANGED <<published, timestep_index, loc_index>>
           ELSE /\ published' = published \o sent.value
                /\ pc' = "running"
                /\ timestep_index' = 0
                /\ loc_index' = 1
                /\ UNCHANGED error
    /\ UNCHANGED <<cfg, locations, deposit, sinks, faults, args, ret, log_vars>>

\* One iteration of the inner loop, for locations[loc_index] at timestep_index.
RunIter ==
    /\ pc = "running"
    /\ \E rng \in RunRngTapes :
         LET sim_cfg == cfg.simulation
             ts == start_ts + sim_cfg.timestep_minutes * timestep_index
             stepped == step_location(rng, sim_cfg, locations[loc_index])
             updated == stepped.location
             dep == stepped.deposit
             events == IF dep.deposited
                       THEN status_events(sim_cfg, ts, updated, dep, timestep_index)
                       ELSE Returned(<< >>)
             sent == IF events.raised # None THEN events
                     ELSE publish_all(events.value)
         IN  /\ locations' = [locations EXCEPT ![loc_index] = updated]
             /\ deposit' = dep
             /\ IF sent.raised # None
                THEN /\ error' = sent.raised
                     /\ pc' = "draining"
                     /\ UNCHANGED <<published, timestep_index, loc_index>>
                ELSE /\ published' = published \o sent.value
                     /\ UNCHANGED error
                     /\ IF loc_index < Len(locations)
                        THEN /\ loc_index' = loc_index + 1
                             /\ UNCHANGED <<pc, timestep_index>>
                        ELSE IF timestep_index + 1 < cfg.steps
                        THEN /\ timestep_index' = timestep_index + 1
                             /\ loc_index' = 1
                             /\ UNCHANGED pc
                        ELSE /\ pc' = "draining"
                             /\ UNCHANGED <<timestep_index, loc_index>>
    /\ UNCHANGED <<cfg, start_ts, sinks, faults, args, ret, log_vars>>

\* The finally block: log_fp.close(), then loop_stop() and, in its own
\* finally, disconnect().  An exception of close() skips the client; an
\* exception raised here replaces the one that led here.
Drain ==
    /\ pc = "draining"
    /\ LET close_raises == sinks.log_fp # None /\ "close" \in faults
           client_reached == sinks.client # None /\ ~close_raises
           client_raises == /\ client_reached
                            /\ faults \cap {"loop_stop", "disconnect"} # {}
       IN  /\ sinks' = [sinks EXCEPT
                          !.close = IF sinks.log_fp # None THEN @ + 1 ELSE @,
                          !.loop_stop = IF client_reached THEN @ + 1 ELSE @,
                          !.disconnect = IF client_reached THEN @ + 1 ELSE @]
           /\ error' = IF close_raises \/ client_raises
                       THEN "OSError" ELSE error
    /\ pc' = "stopped"
    /\ UNCHANGED <<cfg, locations, timestep_index, loc_index, published,
                   start_ts, deposit, faults, args, ret, log_vars>>

Next == Validate \/ OpenSinks \/ PublishInit \/ RunIter \/ Drain

Spec == RunInit /\ [][Next]_vars

\* Where run_simulation stands; every step of it moves on.
position == <<pc, timestep_index, loc_index>>

\* run_simulation is one synchronous thread: it takes its next step as long
\* as it has one.
FairSimulationConfigs ==
    { SimulationConfig(15, ap, 60, 10, ped, << >>,
                       [i \in 1..n |-> SimulationLocationConfig(i)]) :
        ap \in {50, 100}, ped \in BOOLEAN, n \in 0..MaxLocations }

FairInit ==
    /\ Entered
    /\ cfg \in [steps : 0..MaxSteps,
                simulation : FairSimulationConfigs \cup {NoSimulation},
                dry_run : {TRUE}, log_file : {None}]
    /\ faults = {}

SpecFair == FairInit /\ [][Next]_vars /\ WF_position(Next)

\* Runs with every choice of sinks (log file or not, dry run or broker) and
\* every set of failing sink operations.
SinkSimulationConfigs ==
    { SimulationConfig(15, 100, 60, b, FALSE, << >>,
                       [i \in 1..n |-> SimulationLocationConfig(i)]) :
        b \in {0, 10}, n \in 0..MaxLocations }

SinksInit ==
    /\ Entered
    /\ cfg \in [steps : {0, 1},
                simulation : SinkSimulationConfigs \cup {NoSimulation},
                dry_run : BOOLEAN, log_file : LogFiles]
    /\ faults \in SUBSET SinkOperations

SpecSinks == SinksInit /\ [][Next]_vars

\* The end-to-end scenario: one location, arrival_prob 1.0, deposits of 2,
\* boundary 10, 5 steps, a status event per boundary only; the seed is any.
E2EInit ==
    /\ Entered
    /\ cfg = [steps |-> 5,
              simulation |-> SimulationConfig(15, 100, 2, 10, FALSE, << >>,
                                 << SimulationLocationConfig(1) >>),
              dry_run |-> TRUE, log_file |-> None]
    /\ faults = {}

SpecE2E == E2EInit /\ [][Next]_vars

(***************************************************************************)
(* Direct calls of the pure functions: the arguments are drawn in the      *)
(* initial state, the call is one step.  run_simulation is not running.    *)
(***************************************************************************)
NotRunning ==
    /\ cfg = [steps |-> 0, simulation |-> NoSimulation, dry_run |-> TRUE,
              log_file |-> None]
    /\ locations = << >>
    /\ timestep_index = -1
    /\ loc_index = 0
    /\ published = << >>
    /\ start_ts = NoTimestamp
    /\ deposit = NoDeposit
    /\ error = None
    /\ sinks = NoSinks
    /\ faults = {}
    /\ jsonl = NoLog
    /\ session = NoSession

run_vars == <<cfg, locations, timestep_index, loc_index, published, start_ts,
              deposit, error, sinks, faults>>

BoundariesInit ==
    /\ pc = "call"
    /\ args \in [fn : {"boundaries_crossed"}, old_fill_pct : FillInputs,
                 new_fill_pct : FillInputs, boundary_pct : BoundaryInputs]
    /\ ret = None
    /\ NotRunning

CallBoundariesCrossed ==
    /\ pc = "call"
    /\ args.fn = "boundaries_crossed"
    /\ ret' = boundaries_crossed(args.old_fill_pct, args.new_fill_pct,
                                 args.boundary_pct)
    /\ pc' = "return"
    /\ UNCHANGED <<args, run_vars, log_vars>>

SpecBoundaries == BoundariesInit /\ [][CallBoundariesCrossed]_vars

ChooseInit ==
    /\ pc = "call"
    /\ args \in [fn : {"choose_container"}, rng : [1..2 -> RollValues],
                 left : {ContainerState(f) : f \in FillSamples},
                 center : {ContainerState(f) : f \in FillSamples},
                 right : {ContainerState(f) : f \in FillSamples}]
    /\ ret = None
    /\ NotRunning

CallChooseContainer ==
    /\ pc = "call"
    /\ args.fn = "choose_container"
    /\ ret' = choose_container(args.rng, args.left, args.center, args.right)
    /\ pc' = "return"
    /\ UNCHANGED <<args, run_vars, log_vars>>

SpecChoose == ChooseInit /\ [][CallChooseContainer]_vars

StepInit ==
    /\ pc = "call"
    /\ args \in [fn : {"step_location"}, rng : RngTapes,
                 sim_cfg : { SimulationConfig(15, ap, d, 10, FALSE, << >>,
                                 << SimulationLocationConfig(1) >>) :
                             ap \in ArrivalProbValues, d \in DeltaValues },
                 location : { LocationState(1, 56, 13, ContainerState(l),
                                  ContainerState(c), ContainerState(r)) :
                              l \in FillSamples, c \in FillSamples,
                              r \in FillSamples }]
    /\ ret = None
    /\ NotRunning

CallStepLocation ==
    /\ pc = "call"
    /\ args.fn = "step_location"
    /\ ret' = step_location(args.rng, args.sim_cfg, args.location)
    /\ pc' = "return"
    /\ UNCHANGED <<args, run_vars, log_vars>>

SpecStep == StepInit /\ [][CallStepLocation]_vars

\* TeeStatusPublisher.publish_status: the event is forwarded to the
\* publishers in order; the first one that raises ends the loop and its
\* exception leaves publish_status, so the publishers after it get nothing.
tee_publish_status(publishers, event) ==
    LET failing == {i \in 1..Len(publishers) : publishers[i].fails}
        reached(i) == \A j \in failing : i < j
    IN  [delivered |-> [i \in 1..Len(publishers) |->
                          IF reached(i) THEN << event >> ELSE << >>],
         raised |-> IF failing = {} THEN None ELSE "OSError"]

\* Status events handed to a publisher.
EventSamples ==
    { publish_status(ts, LocationState(1, 56, 13, ContainerState(0),
                                       ContainerState(0), ContainerState(0)),
                     c, f, i, e) :
        ts \in {600, 615}, c \in {ContainerNames[k] : k \in 1..3}, f \in {0, 2, 10, 100}, i \in {-1, 0, 4},
        e \in {"init", "status"} }

TeeInit ==
    /\ pc = "call"
    /\ args \in [fn : {"TeeStatusPublisher.publish_status"},
                 publishers : [1..2 -> [fails : BOOLEAN]],
                 event : EventSamples]
    /\ ret = None
    /\ NotRunning

CallTeePublishStatus ==
    /\ pc = "call"
    /\ args.fn = "TeeStatusPublisher.publish_status"
    /\ ret' = tee_publish_status(args.publishers, args.event)
    /\ pc' = "return"
    /\ UNCHANGED <<args, run_vars, log_vars>>

SpecTee == TeeInit /\ [][CallTeePublishStatus]_vars

(***************************************************************************)
(* The wire format.  An aware datetime is its instant (minutes, UTC) and   *)
(* the offset of its time zone; an ISO-8601 string is the wall-clock time  *)
(* it spells and its suffix.                                               *)
(***************************************************************************)
datetime(instant, utcoffset) == [instant |-> instant, utcoffset |-> utcoffset]

astimezone_utc(dt) == datetime(dt.instant, 0)

\* The suffixes isoformat writes, by offset in minutes.
OffsetSuffixes == [m \in {-300, 0, 60} |->
                     IF m = 0 THEN "+00:00"
                     ELSE IF m = 60 THEN "+01:00" ELSE "-05:00"]

isoformat(dt) == [wall |-> dt.instant + dt.utcoffset,
                  suffix |-> OffsetSuffixes[dt.utcoffset]]

\* str.replace("+00:00", "Z") on an ISO string.
replace_utc_by_z(text) ==
    IF text.suffix = "+00:00" THEN [text EXCEPT !.suffix = "Z"] ELSE text

fromisoformat(text) ==
    LET m == CHOOSE k \in DOMAIN OffsetSuffixes : OffsetSuffixes[k] = text.suffix
    IN  datetime(text.wall - m, m)

parse_ts(value) ==
    LET text == IF value.suffix = "Z" THEN [value EXCEPT !.suffix = "+00:00"]
                ELSE value
    IN  astimezone_utc(fromisoformat(text))

\* json.dumps writes the members in order; json.loads reads them into a dict.
json_dumps(data, keys) == [k \in 1..Len(keys) |-> << keys[k], data[keys[k]] >>]

json_loads(text) ==
    [key \in {text[k][1] : k \in 1..Len(text)} |->
        LET k == CHOOSE j \in 1..Len(text) : text[j][1] = key IN text[k][2]]

PayloadKeys == << "ts", "location_id", "lat", "lon", "container", "fill_pct",
                 "timestep_index", "event" >>

make_status_payload(ts, location, container, fill_pct, index, event) ==
    json_dumps([ts |-> replace_utc_by_z(isoformat(astimezone_utc(ts))),
                location_id |-> location.location_id,
                lat |-> location.lat,
                lon |-> location.lon,
                container |-> container,
                fill_pct |-> fill_pct,
                timestep_index |-> index,
                event |-> event], PayloadKeys)

\* dashboard_data.StatusEvent: six fields, no lat and no lon.
StatusEvent(ts, location_id, container, fill_pct, index, event) ==
    [ts |-> ts, location_id |-> location_id, container |-> container,
     fill_pct |-> fill_pct, timestep_index |-> index, event |-> event]

event_from_payload(payload) ==
    StatusEvent(parse_ts(payload.ts),
                payload.location_id,
                payload.container,
                payload.fill_pct,
                IF "timestep_index" \in DOMAIN payload
                THEN payload.timestep_index ELSE 0,
                IF "event" \in DOMAIN payload /\ payload.event # ""
                THEN payload.event ELSE "status")

PayloadInit ==
    /\ pc = "call"
    /\ args \in [fn : {"event_from_payload"},
                 ts : {datetime(i, o) : i \in {600, 615}, o \in DOMAIN OffsetSuffixes},
                 location : {LocationState(id, 56, 13, ContainerState(0),
                                 ContainerState(0), ContainerState(0)) :
                             id \in {"a", "b"}},
                 container : {ContainerNames[k] : k \in 1..3},
                 fill_pct : {0, 2, 100},
                 timestep_index : {-1, 0, 4},
                 event : {"init", "status"}]
    /\ ret = None
    /\ NotRunning

\* The simulator serializes, the dashboard parses what it reads.
CallRoundTrip ==
    /\ pc = "call"
    /\ args.fn = "event_from_payload"
    /\ ret' = event_from_payload(json_loads(
                 make_status_payload(args.ts, args.location, args.container,
                                     args.fill_pct, args.timestep_index,
                                     args.event)))
    /\ pc' = "return"
    /\ UNCHANGED <<args, run_vars, log_vars>>

SpecPayload == PayloadInit /\ [][CallRoundTrip]_vars

(***************************************************************************)
(* The JSONL log: the simulator appends lines, the dashboard polls.  The   *)
(* file is a sequence of characters; a logged line is "{", the payload,    *)
(* "}" and the newline.                                                    *)
(***************************************************************************)
MaxLogLines == 4

\* Two payloads: a deposit that crosses several boundaries logs equal lines.
LogPayloads == {"a", "b"}

\* json.dumps(line_obj) + "\n"
jsonl_line(payload) == << "{", payload, "}", "\n" >>

\* f.readlines(): the lines of text, each up to and without its newline; a
\* last line without newline is a line too.
RECURSIVE readlines(_)
readlines(text) ==
    IF text = << >> THEN << >>
    ELSE LET ends == {k \in 1..Len(text) : text[k] = "\n"}
             cut == IF ends = {} THEN Len(text)
                    ELSE CHOOSE k \in ends : \A j \in ends : k <= j
             line == IF ends = {} THEN text ELSE SubSeq(text, 1, cut - 1)
         IN  << line >> \o readlines(SubSeq(text, cut + 1, Len(text)))

\* json.loads of one stripped line and the checks on the object: the
\* payload of a well-formed line, nothing for an empty or a broken one.
line_payloads(line) ==
    IF Len(line) = 3 /\ line[1] = "{" /\ line[3] = "}" /\ line[2] \in LogPayloads
    THEN << line[2] >>
    ELSE << >>

RECURSIVE lines_payloads(_)
lines_payloads(lines) ==
    IF lines = << >> THEN << >>
    ELSE line_payloads(Head(lines)) \o lines_payloads(Tail(lines))

read_jsonl_incremental_stale_offset(content, offset) ==
    LET new_lines == readlines(SubSeq(content, offset + 1, Len(content)))
    IN  [payloads |-> lines_payloads(new_lines),
         new_offset |-> offset]

\* seek(offset), readlines(), tell(): a seek beyond the end reads nothing
\* and stays where it is.
read_jsonl_incremental(content, offset) ==
    LET new_lines == readlines(SubSeq(content, offset + 1, Len(content)))
    IN  [payloads |-> lines_payloads(new_lines),
         new_offset |-> IF offset > Len(content) THEN offset ELSE Len(content)]

\* The log file was opened by the run (mode "w") and the dashboard session
\* starts at offset 0.
LogInit ==
    /\ pc = "logging"
    /\ args = [fn |-> "read_jsonl_incremental"]
    /\ ret = None
    /\ NotRunning

\* JsonlFileStatusPublisher.publish_status: the line is written and flushed.
AppendLine ==
    /\ pc = "logging"
    /\ Len(jsonl.logged) < MaxLogLines
    /\ \E payload \in LogPayloads :
         jsonl' = [content |-> jsonl.content \o jsonl_line(payload),
                   logged |-> Append(jsonl.logged, payload)]
    /\ UNCHANGED <<pc, args, ret, run_vars, session>>

\* One refresh of the dashboard: the new payloads are read from the stored
\* offset and the offset returned is stored.
PollLog ==
    /\ pc = "logging"
    /\ LET read == read_jsonl_incremental(jsonl.content, session.log_offset)
       IN  /\ session' = [log_offset |-> read.new_offset,
                          payloads |-> session.payloads \o read.payloads]
    /\ UNCHANGED <<pc, args, ret, run_vars, jsonl>>

SpecLog == LogInit /\ [][AppendLine \/ PollLog]_vars

(***************************************************************************)
(* Properties.                                                             *)
(***************************************************************************)
Names == {"left", "center", "right"}

FillSum(location) ==
    location.left.fill_pct + location.center.fill_pct + location.right.fill_pct

\* C1: in every state of a run, every container of every location has an
\* integer fill_pct with 0 <= fill_pct <= 100 (bag_fill_delta_pct > 0).
C1_FillInRange ==
    \A i \in DOMAIN locations : \A c \in Names :
        locations[i][c].fill_pct \in 0..100

\* A deposit was clamped: 60 + 60 became 100.
C1_Witness ==
    /\ pc \in {"running", "draining"}
    /\ cfg.simulation.bag_fill_delta_pct = 60
    /\ deposit.deposited
    /\ deposit.old_fill_pct = 60
    /\ locations[1][deposit.container].fill_pct = 100

\* C2: no step of a run decreases the fill_pct of any container of any
\* location.
C2_FillNeverDecreases ==
    [][ \A i \in DOMAIN locations : \A c \in Names :
            i \in DOMAIN locations' =>
                locations'[i][c].fill_pct >= locations[i][c].fill_pct ]_vars

\* A second deposit into a container that already held rubbish.
C2_Witness ==
    /\ pc \in {"running", "draining"}
    /\ deposit.deposited
    /\ deposit.old_fill_pct > 0
    /\ deposit.new_fill_pct > deposit.old_fill_pct
    /\ locations[1][deposit.container].fill_pct = deposit.new_fill_pct

\* C3: one call of step_location changes at most one container: with
\* deposited true exactly the chosen container's fill changes and the other
\* two containers, location_id, lat and lon are unchanged; with deposited
\* false (no arrival, or all three containers full) the location returned
\* equals the one passed in.
C3_OneContainerPerStep ==
    (pc = "return") =>
        LET old == args.location
            new == ret.location
            d == ret.deposit
            all_full == \A c \in Names : old[c].fill_pct >= 100
            arrival == args.rng[1] < args.sim_cfg.arrival_prob
        IN  /\ d.deposited <=> (arrival /\ ~all_full)
            /\ IF d.deposited
               THEN /\ d.container \in Names
                    /\ new[d.container].fill_pct # old[d.container].fill_pct
                    /\ \A c \in Names \ {d.container} : new[c] = old[c]
                    /\ new.location_id = old.location_id
                    /\ new.lat = old.lat
                    /\ new.lon = old.lon
               ELSE new = old

\* A deposit into center while left and right hold different fills.
C3_Witness ==
    /\ pc = "return"
    /\ ret.deposit.deposited
    /\ ret.deposit.container = "center"
    /\ args.location.left.fill_pct = 40
    /\ args.location.right.fill_pct = 99
    /\ ret.location.center.fill_pct # args.location.center.fill_pct

\* C4: when step_location deposits, the sum of the three fills grows by
\* exactly min(bag_fill_delta_pct, 100 - old_fill_pct of the chosen
\* container) and new_fill_pct = min(100, old_fill_pct + bag_fill_delta_pct).
C4_DepositDelta ==
    (pc = "return" /\ ret.deposit.deposited) =>
        LET d == ret.deposit
            delta == args.sim_cfg.bag_fill_delta_pct
        IN  /\ d.old_fill_pct = args.location[d.container].fill_pct
            /\ FillSum(ret.location) - FillSum(args.location)
                   = Min(delta, 100 - d.old_fill_pct)
            /\ d.new_fill_pct = Min(100, d.old_fill_pct + delta)

\* A deposit of 2 into a container at 99: the sum grows by 1.
C4_Witness ==
    /\ pc = "return"
    /\ ret.deposit.deposited
    /\ ret.deposit.old_fill_pct = 99
    /\ args.sim_cfg.bag_fill_delta_pct = 2
    /\ FillSum(ret.location) = FillSum(args.location) + 1

\* C5: for boundary_pct > 0 and 0 <= old <= new <= 100, boundaries_crossed
\* returns exactly the multiples of boundary_pct that are > old and <= new,
\* strictly increasing (boundary_pct * (old div b + 1) ... boundary_pct *
\* (new div b)), and it is empty iff old div b = new div b; (19,31,10) gives
\* [20,30], (9,10,10) gives [10], (0,1,10) gives [].
C5_BoundariesCrossedExact ==
    (/\ pc = "return"
     /\ args.boundary_pct > 0
     /\ 0 <= args.old_fill_pct
     /\ args.old_fill_pct <= args.new_fill_pct
     /\ args.new_fill_pct <= 100) =>
        LET b == args.boundary_pct
            old == args.old_fill_pct
            new == args.new_fill_pct
            v == ret.value
        IN  /\ ret.raised = None
            /\ Len(v) = (new \div b) - (old \div b)
            /\ \A k \in 1..Len(v) : v[k] = b * ((old \div b) + k)
            /\ \A k \in 1..(Len(v) - 1) : v[k] < v[k + 1]
            /\ {v[k] : k \in 1..Len(v)} = {m \in (old + 1)..new : m % b = 0}
            /\ (v = << >>) <=> ((old \div b) = (new \div b))
            /\ (old = 19 /\ new = 31 /\ b = 10) => v = <<20, 30>>
            /\ (old = 9 /\ new = 10 /\ b = 10) => v = <<10>>
            /\ (old = 0 /\ new = 1 /\ b = 10) => v = << >>

\* boundaries_crossed(19, 31, boundary_pct=10) returned two boundaries.
C5_Witness ==
    /\ pc = "return"
    /\ args.old_fill_pct = 19
    /\ args.new_fill_pct = 31
    /\ args.boundary_pct = 10
    /\ Len(ret.value) = 2

\* C6: boundaries_crossed raises the configuration error (ValueError) and
\* returns no list for every old and new fill whenever boundary_pct <= 0.
C6_NonPositiveBoundaryRaises ==
    (pc = "return" /\ args.boundary_pct <= 0) =>
        /\ ret.raised = "ValueError"
        /\ ret.value = None

\* boundaries_crossed(0, 10, boundary_pct=0) raised.
C6_Witness ==
    /\ pc = "return"
    /\ args.old_fill_pct = 0
    /\ args.new_fill_pct = 10
    /\ args.boundary_pct = 0
    /\ ret.raised = "ValueError"

\* C7: choose_container returns none when all three containers are full,
\* for every draw, and only then.
C7_NoneIffAllFull ==
    (pc = "return") =>
        ((ret.value = None) <=>
            (/\ args.left.fill_pct >= 100
             /\ args.center.fill_pct >= 100
             /\ args.right.fill_pct >= 100))

\* All three containers full: none was returned.
C7_Witness ==
    /\ pc = "return"
    /\ args.left.fill_pct = 100
    /\ args.center.fill_pct = 100
    /\ args.right.fill_pct = 100
    /\ ret.value = None

\* C8: choose_container never returns a full container, for every draw and
\* every combination of fills.
C8_NeverReturnsFull ==
    (pc = "return" /\ ret.value # None) => args[ret.value].fill_pct < 100

\* Exactly center is full, the first draw prefers center, and another
\* container was returned.
C8_Witness ==
    /\ pc = "return"
    /\ args.center.fill_pct = 100
    /\ args.left.fill_pct < 100
    /\ args.right.fill_pct < 100
    /\ args.rng[1] >= 25
    /\ args.rng[1] < 75
    /\ ret.value \in {"left", "right"}

\* C9: with arrival_prob = 1.0 and all three containers at 0, step_location
\* deposits for every draw: old_fill_pct = 0, new_fill_pct - old_fill_pct =
\* bag_fill_delta_pct clamped at 100, exactly one container changes and the
\* three fills sum to new_fill_pct.
C9_AlwaysDepositsWhenEmpty ==
    (/\ pc = "return"
     /\ args.sim_cfg.arrival_prob = 100
     /\ \A c \in Names : args.location[c].fill_pct = 0) =>
        LET d == ret.deposit
        IN  /\ d.deposited
            /\ d.old_fill_pct = 0
            /\ d.new_fill_pct - d.old_fill_pct
                   = Min(args.sim_cfg.bag_fill_delta_pct, 100)
            /\ Cardinality({c \in Names :
                   ret.location[c] # args.location[c]}) = 1
            /\ FillSum(ret.location) = d.new_fill_pct

\* The deposit of the repository's test: delta 2 into an empty location.
C9_Witness ==
    /\ pc = "return"
    /\ args.sim_cfg.arrival_prob = 100
    /\ args.sim_cfg.bag_fill_delta_pct = 2
    /\ \A c \in Names : args.location[c].fill_pct = 0
    /\ ret.deposit.new_fill_pct = 2
    /\ FillSum(ret.location) = 2

\* C10: with publish_every_deposit false, an iteration that deposits
\* publishes exactly one status event per boundary crossed between
\* old_fill_pct and new_fill_pct (none when no boundary is crossed), and
\* every one of them carries the final new_fill_pct, the timestep's
\* timestamp, the timestep_index and the deposit's container.
C10_OneEventPerBoundary ==
    [][ (pc = "running" /\ ~cfg.simulation.publish_every_deposit) =>
          LET sim_cfg == cfg.simulation
              dep == deposit'
              crossed == boundaries_crossed(dep.old_fill_pct, dep.new_fill_pct,
                                            sim_cfg.status_boundary_pct)
              n == IF ~dep.deposited \/ crossed.raised # None THEN 0
                   ELSE Len(crossed.value)
          IN  /\ Len(published') = Len(published) + n
              /\ SubSeq(published', 1, Len(published)) = published
              /\ \A k \in (Len(published) + 1)..Len(published') :
                    /\ published'[k].event = "status"
                    /\ published'[k].fill_pct = dep.new_fill_pct
                    /\ published'[k].container = dep.container
                    /\ published'[k].timestep_index = timestep_index
                    /\ published'[k].ts =
                           start_ts + sim_cfg.timestep_minutes * timestep_index
                    /\ published'[k].location = locations'[loc_index] ]_vars

\* One deposit took a container from 0 to 60 across the boundaries 25 and
\* 50: two status events, both with fill_pct 60.
C10_Witness ==
    /\ pc \in {"running", "draining"}
    /\ ~cfg.simulation.publish_every_deposit
    /\ cfg.simulation.status_boundary_pct = 25
    /\ deposit.deposited
    /\ deposit.old_fill_pct = 0
    /\ deposit.new_fill_pct = 60
    /\ Len(published) = 5
    /\ published[4].fill_pct = 60
    /\ published[5].fill_pct = 60

\* C11: with publish_every_deposit true, an iteration that deposits
\* publishes exactly one status event, carrying the deposit's container and
\* new_fill_pct, whether or not a boundary was crossed; an iteration without
\* a deposit publishes nothing.
C11_OneEventPerDeposit ==
    [][ (pc = "running" /\ cfg.simulation.publish_every_deposit) =>
          LET sim_cfg == cfg.simulation
              dep == deposit'
          IN  IF dep.deposited
              THEN /\ Len(published') = Len(published) + 1
                   /\ SubSeq(published', 1, Len(published)) = published
                   /\ published'[Len(published')] =
                        publish_status(
                          start_ts + sim_cfg.timestep_minutes * timestep_index,
                          locations'[loc_index], dep.container,
                          dep.new_fill_pct, timestep_index, "status")
              ELSE published' = published ]_vars

\* A deposit of 2 into an empty container crossed no boundary of 10 and was
\* published all the same.
C11_Witness ==
    /\ pc \in {"running", "draining"}
    /\ cfg.simulation.publish_every_deposit
    /\ cfg.simulation.status_boundary_pct = 10
    /\ deposit.deposited
    /\ deposit.new_fill_pct = 2
    /\ Len(published) = 4
    /\ published[4].event = "status"
    /\ published[4].fill_pct = 2

\* C12: a run that passes the configuration checks publishes, before any
\* status event, exactly one init event per container (left, center, right)
\* of every configured location, each with fill_pct 0, timestep_index -1 and
\* the common start timestamp; nothing is published before them.
C12_InitEventsFirst ==
    LET n == 3 * Len(locations)
    IN  /\ pc \in {"start", "opening", "initializing"} => published = << >>
        /\ (pc \in {"running", "draining"}
              \/ (pc = "stopped" /\ locations # << >>)) =>
             /\ Len(published) >= n
             /\ \A k \in 1..n :
                  /\ published[k].event = "init"
                  /\ published[k].location.location_id =
                       cfg.simulation.locations[((k - 1) \div 3) + 1].location_id
                  /\ published[k].container = ContainerNames[((k - 1) % 3) + 1]
                  /\ published[k].fill_pct = 0
                  /\ published[k].timestep_index = -1
                  /\ published[k].ts = start_ts
             /\ \A k \in (n + 1)..Len(published) :
                  published[k].event = "status"

\* The three init events of the one location are followed by a status event.
C12_Witness ==
    /\ pc \in {"running", "draining"}
    /\ Len(published) = 4
    /\ published[1].container = "left"
    /\ published[2].container = "center"
    /\ published[3].container = "right"
    /\ published[3].event = "init"
    /\ published[4].event = "status"

\* C15: a non-positive status_boundary_pct is surfaced as a configuration
\* error before any location state changes and before any event, the init
\* events included, is published.
C15_BoundaryCheckedFirst ==
    (/\ cfg.steps > 0
     /\ cfg.simulation # NoSimulation
     /\ cfg.simulation.status_boundary_pct <= 0) =>
        /\ published = << >>
        /\ \A i \in DOMAIN locations : \A c \in Names :
               locations[i][c].fill_pct = 0
        /\ pc = "stopped" => error = "ValueError"

\* C19: choose_container maps its first draw r to a preferred container
\* (r < 0.25 left, 0.25 <= r < 0.75 center, r >= 0.75 right) and returns
\* exactly it whenever it is not full, whatever the other two fills; only
\* when it is full does it return one of the other containers that is not
\* full (or none).
C19_PreferredUnlessFull ==
    (pc = "return") =>
        LET r == args.rng[1]
            preferred == IF r < 25 THEN "left"
                         ELSE IF r < 75 THEN "center" ELSE "right"
        IN  IF args[preferred].fill_pct < 100
            THEN ret.value = preferred
            ELSE \/ ret.value = None
                 \/ /\ ret.value \in Names \ {preferred}
                    /\ args[ret.value].fill_pct < 100

\* The draw 0.25 prefers center, which is returned although left is empty.
C19_Witness ==
    /\ pc = "return"
    /\ args.rng[1] = 25
    /\ args.left.fill_pct = 0
    /\ args.center.fill_pct = 99
    /\ ret.value = "center"

\* Draws one call of step_location took from its random source.
DrawsTaken == Len(args.rng) - Len(ret.rng)

\* C20 as claimed: every call of step_location takes at least 1 and at most
\* 2 draws from the random source.
C20_AtMostTwoDraws ==
    (pc = "return") => DrawsTaken \in 1..2

\* C20 as amended: every call of step_location takes at least 1 and at most
\* 3 draws: 1 when nobody arrives, 3 when somebody arrives, the preferred
\* container is full and another is not, 2 otherwise; the location passed
\* in is not modified.
C20_AtMostThreeDraws ==
    (pc = "return") =>
        LET r == args.rng[2]
            preferred == IF r < 25 THEN "left"
                         ELSE IF r < 75 THEN "center" ELSE "right"
            arrival == args.rng[1] < args.sim_cfg.arrival_prob
            fallback == /\ args.location[preferred].fill_pct >= 100
                        /\ \E c \in Names : args.location[c].fill_pct < 100
        IN  /\ DrawsTaken \in 1..3
            /\ DrawsTaken = IF ~arrival THEN 1 ELSE IF fallback THEN 3 ELSE 2
            /\ ret.rng = SubSeq(args.rng, DrawsTaken + 1, Len(args.rng))

\* An arrival whose preferred container (center) is full: three draws.
C20_Witness ==
    /\ pc = "return"
    /\ args.location.center.fill_pct = 100
    /\ args.location.left.fill_pct = 0
    /\ ret.deposit.deposited
    /\ DrawsTaken = 3

\* C14: run_simulation fails with a configuration error when steps <= 0 or
\* when no simulation or no locations are configured, and does so before
\* any location state is built, any sink is opened and any event published.
C14_InvalidConfigurationFailsFirst ==
    (\/ cfg.steps <= 0
     \/ cfg.simulation = NoSimulation
     \/ cfg.simulation.locations = << >>) =>
        /\ pc \in {"start", "stopped"}
        /\ pc = "stopped" => error = "ValueError"
        /\ locations = << >>
        /\ sinks = NoSinks
        /\ published = << >>
        /\ start_ts = NoTimestamp

\* A run with steps = 0 that asked for a log file and a broker has stopped.
C14_Witness ==
    /\ pc = "stopped"
    /\ cfg.steps = 0
    /\ cfg.simulation # NoSimulation
    /\ cfg.log_file = "run.jsonl"
    /\ ~cfg.dry_run
    /\ faults = {}
    /\ error = "ValueError"

\* C17: on every exit path of run_simulation after a sink resource has been
\* acquired, the opened log file is closed and the started broker
\* connection is stopped and disconnected, each exactly once.
C17_SinksReleasedOnce ==
    (pc = "stopped") =>
        /\ sinks.log_fp # None => sinks.close = 1
        /\ sinks.client # None =>
             /\ sinks.loop_stop = 1
             /\ sinks.disconnect = 1
        /\ sinks.close <= 1
        /\ sinks.loop_stop <= 1
        /\ sinks.disconnect <= 1

\* C13 as claimed: the end-to-end scenario emits exactly 3 init events
\* followed by exactly one status event in total, with fill_pct 10, after
\* the 5th deposit.
C13_ExactlyOneStatusEvent ==
    (pc = "stopped") =>
        /\ Len(published) = 4
        /\ \A k \in 1..3 : published[k].event = "init"
        /\ published[4].event = "status"
        /\ published[4].fill_pct = 10
        /\ published[4].timestep_index = 4

\* C13 as amended: the end-to-end scenario makes five deposits of 2 and
\* emits exactly 3 init events followed by at most one status event; there
\* is one exactly when all five deposits chose the same container, and it
\* then has fill_pct 10 and belongs to the 5th timestep.
C13_AtMostOneStatusEvent ==
    (pc = "stopped") =>
        /\ error = None
        /\ FillSum(locations[1]) = 10
        /\ Len(published) \in {3, 4}
        /\ \A k \in 1..3 :
             /\ published[k].event = "init"
             /\ published[k].container = ContainerNames[k]
        /\ Len(published) = 4 <=>
             \E c \in Names : locations[1][c].fill_pct = 10
        /\ Len(published) = 4 =>
             /\ published[4].event = "status"
             /\ published[4].fill_pct = 10
             /\ published[4].timestep_index = 4
             /\ locations[1][published[4].container].fill_pct = 10

\* All five deposits went to the center container.
C13_Witness ==
    /\ pc = "stopped"
    /\ locations[1].center.fill_pct = 10
    /\ Len(published) = 4
    /\ published[4].container = "center"
    /\ published[4].fill_pct = 10

\* C16: a fan-out publisher with one failing and one succeeding sink, in
\* either order, still delivers the published event unchanged to the
\* succeeding sink, and the failure is not raised to the caller.
C16_FailingSinkIsolated ==
    (/\ pc = "return"
     /\ \E i \in 1..2 : args.publishers[i].fails
     /\ \E i \in 1..2 : ~args.publishers[i].fails) =>
        /\ ret.raised = None
        /\ \A i \in 1..2 :
             ~args.publishers[i].fails => ret.delivered[i] = << args.event >>

\* The fields of the status event that was serialized.
Serialized ==
    [ts |-> args.ts.instant, location_id |-> args.location.location_id,
     lat |-> args.location.lat, lon |-> args.location.lon,
     container |-> args.container, fill_pct |-> args.fill_pct,
     timestep_index |-> args.timestep_index, event |-> args.event]

\* The value of a field of the parsed event, the timestamp as its instant.
Parsed(field) == IF field = "ts" THEN ret.ts.instant ELSE ret[field]

\* C18: serializing a status event with make_status_payload and parsing
\* the result with event_from_payload yields an event equal field for field
\* to the original: timestamp (the same UTC instant), location_id, lat,
\* lon, container, fill_pct, timestep_index and event kind.
C18_RoundTrip ==
    (pc = "return") =>
        \A field \in DOMAIN Serialized :
            /\ field \in DOMAIN ret
            /\ Parsed(field) = Serialized[field]

\* steps > 0, at least one location and a positive status boundary.
ValidConfiguration ==
    /\ cfg.steps > 0
    /\ cfg.simulation # NoSimulation
    /\ cfg.simulation.locations # << >>
    /\ cfg.simulation.status_boundary_pct > 0

StatusEventCount(id, c) ==
    Cardinality({ k \in 1..Len(published) :
                    /\ published[k].event = "status"
                    /\ published[k].location.location_id = id
                    /\ published[k].container = c })

\* C22: when publish_every_deposit is false and status_boundary_pct > 0,
\* after every timestep (indeed after every iteration) of a run the number
\* of status events published so far for each container equals that
\* container's current fill_pct div status_boundary_pct: every boundary
\* multiple reached, 100 reached by clamping included, has triggered
\* exactly one status event.
C22_EventCountIsFillDivBoundary ==
    (/\ cfg.simulation # NoSimulation
     /\ ~cfg.simulation.publish_every_deposit
     /\ cfg.simulation.status_boundary_pct > 0) =>
        \A i \in DOMAIN locations : \A c \in Names :
            StatusEventCount(locations[i].location_id, c) =
                locations[i][c].fill_pct \div cfg.simulation.status_boundary_pct

\* A container was filled to 100 by a clamped deposit of 150 over boundaries
\* of 25: four status events.
C22_Witness ==
    /\ pc \in {"running", "draining"}
    /\ ~cfg.simulation.publish_every_deposit
    /\ cfg.simulation.status_boundary_pct = 25
    /\ cfg.simulation.bag_fill_delta_pct = 150
    /\ locations[1].center.fill_pct = 100
    /\ locations[1].left.fill_pct = 0
    /\ locations[1].right.fill_pct = 0
    /\ StatusEventCount(1, "center") = 4
    /\ Len(published) = 7

\* C23: while the log writer of one run appends whole JSON lines and a
\* reader polls the file with read_jsonl_incremental, each call starting at
\* the offset the previous one returned (the first at 0), the reader
\* receives every payload logged exactly once and in write order, for every
\* interleaving of appends and polls: what it has received is always the
\* payloads of the lines before its offset, which stands between two lines,
\* and a poll leaves it with everything logged so far.
C23_ReaderReceivesEveryPayloadOnce ==
    /\ [](/\ session.log_offset % Len(jsonl_line("a")) = 0
          /\ session.log_offset <= Len(jsonl.content)
          /\ session.payloads =
               SubSeq(jsonl.logged, 1,
                      session.log_offset \div Len(jsonl_line("a"))))
    /\ [][ session' # session =>
             /\ session'.payloads = jsonl.logged
             /\ session'.log_offset = Len(jsonl.content) ]_vars

\* Two polls between three appends: the second found one new line, the
\* third line is not read yet.
C23_Witness ==
    /\ pc = "logging"
    /\ jsonl.logged = << "a", "b", "b" >>
    /\ session.log_offset = 8
    /\ session.payloads = << "a", "b" >>

=============================================================================
